---- MODULE Spec2Model ----
(***************************************************************************)
(* ClipFlow AI core: marker detection, segment slicing and edit-decision   *)
(* export (backend/app/core/marker.py, slicer.py, exporter.py).            *)
(*                                                                         *)
(* Times are integer milliseconds: the program rounds every time to three  *)
(* decimals when it is created (round(x, 3)), so a millisecond count is    *)
(* the value the program stores.  Binary floating-point noise below one    *)
(* millisecond is not modelled: a comparison or a rounding that is an      *)
(* exact tie in decimal arithmetic (a frame count of k + 1/2, a gap of     *)
(* exactly the tolerance) is decided here by the decimal values, and the   *)
(* inputs of the model avoid such ties where the result depends on them.   *)
(* Texts are sequences of one-character strings.                           *)
(***************************************************************************)
EXTENDS Integers, Sequences, FiniteSets, TLC

VARIABLES
    transcript,       \* list[TranscriptSegment]: input of detect_markers and export_srt
    keywords,         \* the four keyword lists of the project settings
    markers,          \* list[Marker]: result of detect_markers, input of the slicers
    total_duration,   \* total_duration argument of the slicers (ms)
    pre_buffer,       \* pre_buffer argument (ms)
    post_buffer,      \* post_buffer argument (ms)
    cands,            \* the local list `segments` of a slicer before the merge pass
    segments,         \* list[Segment]: result of the slicer / input of the exporters
    remerged,         \* result of a second _merge_overlapping pass over `segments`
    filter_keywords,  \* filter_keywords argument of export_srt
    export,           \* the last exporter call: its kind, argument and document
    phase,            \* which operation produced the current results
    project,          \* project.json: status, progress, error_message, settings.mode
    segments_json,    \* segments.json: <<>> while the file is absent, else <<list>>
    video,            \* a video file is in media/ (get_video_path is not None)
    exports_dir,      \* names of the files written to exports/
    response,         \* the response to the last request
    runs,             \* the _run_analysis background tasks, by task number
    request           \* a segment handler between load_segments and save_segments

detectVars == <<transcript, keywords>>
sliceVars == <<markers, total_duration, pre_buffer, post_buffer, cands, segments,
               remerged>>
exportVars == <<filter_keywords, export>>
apiVars == <<project, segments_json, video, exports_dir, response, runs, request>>
vars == <<detectVars, sliceVars, exportVars, phase, apiVars>>

(***************************************************************************)
(* Bounds of the model                                                     *)
(***************************************************************************)
MaxMarkers == 3
MaxSegs == 3
MaxSentences == 2
MaxWords == 2
MaxExportSegs == 2
MaxRuns == 2
MaxFrame == 1500
MaxHours == 2

(***************************************************************************)
(* Generic helpers                                                         *)
(***************************************************************************)
Max(a, b) == IF a >= b THEN a ELSE b
Min(a, b) == IF a <= b THEN a ELSE b

\* All sequences over S of length 0..n
SeqsUpTo(S, n) == UNION {[1..k -> S] : k \in 0..n}

\* list is in ascending order of .start
SortedByStart(s) == \A i \in 1..(Len(s) - 1) : s[i].start <= s[i + 1].start

(***************************************************************************)
(* schemas.py                                                              *)
(***************************************************************************)
MarkerType == {"NG", "OK", "START", "END"}

Marker(t, w, s, e, c) ==
    [type |-> t, word |-> w, start |-> s, end |-> e, confidence |-> c]

\* trigger_marker = None
NoMarker == Marker("None", <<>>, 0, 0, 0)

\* Segment(start=..., end=..., type="keep", trigger_marker=...) with the
\* defaults enabled=True, manual_adjusted=False
Segment(s, e, m) ==
    [type |-> "keep", start |-> s, end |-> e, trigger_marker |-> m,
     enabled |-> TRUE, manual_adjusted |-> FALSE]

(***************************************************************************)
(* Text: str methods used by marker.py and exporter.py                     *)
(***************************************************************************)
UpperChars == <<"A", "B", "C", "D", "E", "F", "G", "H", "I", "J", "K", "L", "M",
                "N", "O", "P", "Q", "R", "S", "T", "U", "V", "W", "X", "Y", "Z">>
LowerChars == <<"a", "b", "c", "d", "e", "f", "g", "h", "i", "j", "k", "l", "m",
                "n", "o", "p", "q", "r", "s", "t", "u", "v", "w", "x", "y", "z">>

LowerChar(c) ==
    IF \E i \in DOMAIN UpperChars : UpperChars[i] = c
    THEN LowerChars[CHOOSE i \in DOMAIN UpperChars : UpperChars[i] = c]
    ELSE c

\* str.lower()
Lower(t) == [i \in DOMAIN t |-> LowerChar(t[i])]

IsSpace(c) == c \in {" ", "\t", "\n", "\r"}

\* str.strip()
Strip(t) ==
    LET keep == {i \in DOMAIN t : ~IsSpace(t[i])}
    IN IF keep = {} THEN <<>>
       ELSE SubSeq(t, CHOOSE i \in keep : \A j \in keep : i <= j,
                      CHOOSE i \in keep : \A j \in keep : j <= i)

\* kw occurs in t at position i
OccursAt(t, kw, i) ==
    /\ i >= 1
    /\ i + Len(kw) - 1 <= Len(t)
    /\ \A j \in 1..Len(kw) : t[i + j - 1] = kw[j]

\* `kw in t`
Contains(t, kw) == \E i \in 1..(Len(t) + 1) : OccursAt(t, kw, i)

\* "".join(parts)
RECURSIVE Join(_)
Join(parts) == IF parts = <<>> THEN <<>> ELSE Head(parts) \o Join(Tail(parts))

\* round(n / d) for d > 0, ties to the even integer as Python's round
RoundDiv(n, d) ==
    LET q == n \div d
        r == n % d
    IN IF 2 * r < d THEN q
       ELSE IF 2 * r > d THEN q + 1
       ELSE IF q % 2 = 0 THEN q ELSE q + 1

(***************************************************************************)
(* marker.py                                                               *)
(***************************************************************************)
\* FUZZY_THRESHOLD = 0.75 as the fraction 3/4
FUZZY_THRESHOLD_NUM == 3
FUZZY_THRESHOLD_DEN == 4

\* difflib.SequenceMatcher.find_longest_match on a[alo..ahi-1], b[blo..bhi-1]:
\* the longest common block, the earliest in a and then the earliest in b;
\* <<i, j, k>> with k = 0 when there is none
LongestMatch(a, b, alo, ahi, blo, bhi) ==
    LET blocks == {x \in (alo..(ahi - 1)) \X (blo..(bhi - 1)) \X (1..(ahi - alo)) :
                      /\ x[1] + x[3] <= ahi
                      /\ x[2] + x[3] <= bhi
                      /\ \A d \in 0..(x[3] - 1) : a[x[1] + d] = b[x[2] + d]}
    IN IF blocks = {} THEN <<alo, blo, 0>>
       ELSE CHOOSE x \in blocks : \A y \in blocks :
                \/ x[3] > y[3]
                \/ x[3] = y[3] /\ x[1] < y[1]
                \/ x[3] = y[3] /\ x[1] = y[1] /\ x[2] <= y[2]

\* sum of the sizes of SequenceMatcher.get_matching_blocks()
RECURSIVE MatchCount(_, _, _, _, _, _)
MatchCount(a, b, alo, ahi, blo, bhi) ==
    IF alo >= ahi \/ blo >= bhi THEN 0
    ELSE LET m == LongestMatch(a, b, alo, ahi, blo, bhi)
         IN IF m[3] = 0 THEN 0
            ELSE m[3] + MatchCount(a, b, alo, m[1], blo, m[2])
                      + MatchCount(a, b, m[1] + m[3], ahi, m[2] + m[3], bhi)

\* the similarity as the fraction <<numerator, denominator>>
_fuzzy_match(text, keyword) ==
    LET t == Lower(Strip(text))
        k == Lower(Strip(keyword))
    IN IF t = k \/ Contains(t, k) THEN <<1, 1>>
       ELSE <<2 * MatchCount(t, k, 1, Len(t) + 1, 1, Len(k) + 1), Len(t) + Len(k)>>

\* score >= FUZZY_THRESHOLD
MeetsThreshold(score) ==
    score[1] * FUZZY_THRESHOLD_DEN >= FUZZY_THRESHOLD_NUM * score[2]

\* round(score, 3), in thousandths
Confidence(score) == RoundDiv(1000 * score[1], score[2])

\* range(1, min(6, len(words) - start_idx + 1))
MAX_SPAN == 5

\* [is_match, end_idx, score]
_check_word_sequence(words, start_idx, keyword) ==
    IF Len(keyword) <= 3
    THEN LET score == _fuzzy_match(words[start_idx].word, keyword)
         IN [is_match |-> MeetsThreshold(score), end_idx |-> start_idx,
             score |-> score]
    ELSE LET spans == 1..Min(MAX_SPAN, Len(words) - start_idx + 1)
             combined(span) ==
                 Join([j \in 1..span |-> words[start_idx + j - 1].word])
             hits == {sp \in spans :
                         MeetsThreshold(_fuzzy_match(combined(sp), keyword))}
         IN IF hits = {}
            THEN [is_match |-> FALSE, end_idx |-> start_idx, score |-> <<0, 1>>]
            ELSE LET span == CHOOSE sp \in hits : \A o \in hits : sp <= o
                 IN [is_match |-> TRUE, end_idx |-> start_idx + span - 1,
                     score |-> _fuzzy_match(combined(span), keyword)]

\* keyword_map: (keyword, type) pairs in the order NG, OK, START, END
KeywordMap(kws) ==
    [i \in DOMAIN kws.ng |-> <<kws.ng[i], "NG">>]
    \o [i \in DOMAIN kws.ok |-> <<kws.ok[i], "OK">>]
    \o [i \in DOMAIN kws.start |-> <<kws.start[i], "START">>]
    \o [i \in DOMAIN kws.end |-> <<kws.end[i], "END">>]

\* first pass: one marker per sentence whose whole text matches a keyword
RECURSIVE SentencePass(_, _, _)
SentencePass(segs, keyword_map, ms) ==
    IF segs = <<>> THEN ms
    ELSE LET seg == Head(segs)
             seg_text == Strip(seg.text)
             hits == {i \in DOMAIN keyword_map :
                         MeetsThreshold(_fuzzy_match(seg_text, keyword_map[i][1]))}
         IN IF hits = {} THEN SentencePass(Tail(segs), keyword_map, ms)
            ELSE LET i == CHOOSE h \in hits : \A o \in hits : h <= o
                 IN SentencePass(Tail(segs), keyword_map,
                        Append(ms, Marker(keyword_map[i][2], seg_text, seg.start,
                                   seg.end,
                                   Confidence(_fuzzy_match(seg_text,
                                                           keyword_map[i][1])))))

Abs(x) == IF x < 0 THEN -x ELSE x

DEDUP_TOL == 100   \* abs(m.start - word.start) < 0.1

\* the while loop over the words of one sentence, from index i
RECURSIVE WordLoop(_, _, _, _)
WordLoop(words, i, keyword_map, ms) ==
    IF i > Len(words) THEN ms
    ELSE LET word == words[i]
             hits == {k \in DOMAIN keyword_map :
                         _check_word_sequence(words, i, keyword_map[k][1]).is_match}
         IN IF hits = {} THEN WordLoop(words, i + 1, keyword_map, ms)
            ELSE LET k == CHOOSE h \in hits : \A o \in hits : h <= o
                     r == _check_word_sequence(words, i, keyword_map[k][1])
                     end_word == words[r.end_idx]
                     already_found ==
                         \E n \in DOMAIN ms :
                             /\ Abs(ms[n].start - word.start) < DEDUP_TOL
                             /\ Abs(ms[n].end - end_word.end) < DEDUP_TOL
                     m == Marker(keyword_map[k][2],
                                 Join([j \in 1..(r.end_idx - i + 1) |->
                                          words[i + j - 1].word]),
                                 word.start, end_word.end, Confidence(r.score))
                 IN WordLoop(words, r.end_idx + 1, keyword_map,
                             IF already_found THEN ms ELSE Append(ms, m))

\* second pass: the word loop of every sentence that has words
RECURSIVE WordPass(_, _, _)
WordPass(segs, keyword_map, ms) ==
    IF segs = <<>> THEN ms
    ELSE WordPass(Tail(segs), keyword_map,
                  IF Head(segs).words = <<>> THEN ms
                  ELSE WordLoop(Head(segs).words, 1, keyword_map, ms))

\* markers.sort(key=lambda m: m.start): stable
RECURSIVE InsertMarker(_, _)
InsertMarker(sorted, x) ==
    IF sorted = <<>> THEN <<x>>
    ELSE IF sorted[Len(sorted)].start <= x.start THEN Append(sorted, x)
    ELSE Append(InsertMarker(SubSeq(sorted, 1, Len(sorted) - 1), x),
                sorted[Len(sorted)])

RECURSIVE SortMarkers(_)
SortMarkers(ms) ==
    IF ms = <<>> THEN <<>>
    ELSE InsertMarker(SortMarkers(SubSeq(ms, 1, Len(ms) - 1)), ms[Len(ms)])

\* a plausible slip: the two passes without the final sort
detect_markers_unsorted(ts, kws) ==
    WordPass(ts, KeywordMap(kws), SentencePass(ts, KeywordMap(kws), <<>>))

detect_markers(ts, kws) ==
    SortMarkers(WordPass(ts, KeywordMap(kws),
                         SentencePass(ts, KeywordMap(kws), <<>>)))

(***************************************************************************)
(* slicer.py                                                               *)
(***************************************************************************)
MIN_LEN == 100      \* seg_end > seg_start + 0.1
MERGE_TOL == 50     \* seg.start <= last.end + 0.05

\* sorted(segments, key=lambda s: s.start): stable
RECURSIVE InsertByStart(_, _)
InsertByStart(sorted, x) ==
    IF sorted = <<>> THEN <<x>>
    ELSE IF sorted[Len(sorted)].start <= x.start THEN Append(sorted, x)
    ELSE Append(InsertByStart(SubSeq(sorted, 1, Len(sorted) - 1), x),
                sorted[Len(sorted)])

RECURSIVE SortSegs(_)
SortSegs(s) ==
    IF s = <<>> THEN <<>>
    ELSE InsertByStart(SortSegs(SubSeq(s, 1, Len(s) - 1)), s[Len(s)])

\* the for loop of _merge_overlapping over sorted_segs[1:]
RECURSIVE MergeLoop(_, _)
MergeLoop(merged, rest) ==
    IF rest = <<>> THEN merged
    ELSE LET seg == Head(rest)
             n == Len(merged)
             last == merged[n]
         IN IF seg.start <= last.end + MERGE_TOL
            THEN MergeLoop([merged EXCEPT ![n].end = Max(last.end, seg.end)],
                           Tail(rest))
            ELSE MergeLoop(Append(merged, seg), Tail(rest))

\* a plausible slip: compare with the previous sorted element, not with the
\* segment it was merged into
RECURSIVE MergeLoopPrev(_, _, _)
MergeLoopPrev(merged, prev, rest) ==
    IF rest = <<>> THEN merged
    ELSE LET seg == Head(rest)
             n == Len(merged)
             last == merged[n]
         IN IF seg.start <= prev.end + MERGE_TOL
            THEN MergeLoopPrev([merged EXCEPT ![n].end = Max(last.end, seg.end)],
                               seg, Tail(rest))
            ELSE MergeLoopPrev(Append(merged, seg), seg, Tail(rest))

MergeAdjacentOnly(segs) ==
    IF segs = <<>> THEN segs
    ELSE LET sorted_segs == SortSegs(segs)
         IN MergeLoopPrev(<<sorted_segs[1]>>, sorted_segs[1], Tail(sorted_segs))

\* a plausible slip: the overlap test reads last.start instead of last.end
RECURSIVE MergeLoopByStart(_, _)
MergeLoopByStart(merged, rest) ==
    IF rest = <<>> THEN merged
    ELSE LET seg == Head(rest)
             n == Len(merged)
             last == merged[n]
         IN IF seg.start <= last.start + MERGE_TOL
            THEN MergeLoopByStart([merged EXCEPT ![n].end = Max(last.end, seg.end)],
                                  Tail(rest))
            ELSE MergeLoopByStart(Append(merged, seg), Tail(rest))

MergeByStart(segs) ==
    IF segs = <<>> THEN segs
    ELSE LET sorted_segs == SortSegs(segs)
         IN MergeLoopByStart(<<sorted_segs[1]>>, Tail(sorted_segs))

\* a plausible slip: the merged end is the end of the later segment, not the
\* maximum of the two ends
RECURSIVE MergeLoopLastEnd(_, _)
MergeLoopLastEnd(merged, rest) ==
    IF rest = <<>> THEN merged
    ELSE LET seg == Head(rest)
             n == Len(merged)
             last == merged[n]
         IN IF seg.start <= last.end + MERGE_TOL
            THEN MergeLoopLastEnd([merged EXCEPT ![n].end = seg.end], Tail(rest))
            ELSE MergeLoopLastEnd(Append(merged, seg), Tail(rest))

MergeLastEnd(segs) ==
    IF segs = <<>> THEN segs
    ELSE LET sorted_segs == SortSegs(segs)
         IN MergeLoopLastEnd(<<sorted_segs[1]>>, Tail(sorted_segs))

_merge_overlapping(segs) ==
    IF segs = <<>> THEN segs
    ELSE LET sorted_segs == SortSegs(segs)
         IN MergeLoop(<<sorted_segs[1]>>, Tail(sorted_segs))

OfType(ms, t) == SelectSeq(ms, LAMBDA m : m.type = t)

\* the for loop of slice_backtrack over ok_markers; segs is the local list
RECURSIVE BacktrackLoop(_, _, _, _, _, _)
BacktrackLoop(oks, ng_markers, total, pre, post, segs) ==
    IF oks = <<>> THEN segs
    ELSE LET ok == Head(oks)
             preceding_ngs == SelectSeq(ng_markers, LAMBDA ng : ng.end < ok.start)
             seg_start0 ==
                 IF preceding_ngs # <<>>
                 THEN Max(0, preceding_ngs[Len(preceding_ngs)].end + post)
                 ELSE IF segs # <<>> THEN segs[Len(segs)].end ELSE 0
             seg_end0 == Min(total, ok.start - pre)
             seg_start == Max(0, seg_start0 - pre)
             seg_end == Min(total, seg_end0 + post)
         IN BacktrackLoop(Tail(oks), ng_markers, total, pre, post,
                IF seg_end > seg_start + MIN_LEN
                THEN Append(segs, Segment(seg_start, seg_end, ok))
                ELSE segs)

\* the list `segments` of slice_backtrack when it reaches the merge pass
\* (or when it returns early)
backtrack_candidates(ms, total, pre, post) ==
    LET ok_markers == OfType(ms, "OK")
        ng_markers == OfType(ms, "NG")
    IN IF ok_markers = <<>>
       THEN IF total > 0 THEN <<Segment(0, total, NoMarker)>> ELSE <<>>
       ELSE BacktrackLoop(ok_markers, ng_markers, total, pre, post, <<>>)

\* a plausible slip: the early return without the full-duration segment
slice_backtrack_no_fallback(ms, total, pre, post) ==
    IF OfType(ms, "OK") = <<>>
    THEN <<>>
    ELSE _merge_overlapping(backtrack_candidates(ms, total, pre, post))

slice_backtrack(ms, total, pre, post) ==
    IF OfType(ms, "OK") = <<>>
    THEN backtrack_candidates(ms, total, pre, post)
    ELSE _merge_overlapping(backtrack_candidates(ms, total, pre, post))

\* a plausible slip: matching_ends[-1] instead of matching_ends[0]
RECURSIVE IntervalLoopLastEnd(_, _, _, _, _, _, _)
IntervalLoopLastEnd(todo, start_markers, end_markers, total, pre, post, segs) ==
    IF todo = <<>> THEN segs
    ELSE LET start_m == Head(todo)
             matching_ends == SelectSeq(end_markers,
                                        LAMBDA e : e.start > start_m.end)
             next_starts == SelectSeq(start_markers,
                                      LAMBDA s : s.start > start_m.end)
             seg_start == Max(0, start_m.end + post - pre)
             seg_end ==
                 IF matching_ends # <<>>
                 THEN Min(total, matching_ends[Len(matching_ends)].start - post + post)
                 ELSE IF next_starts # <<>> THEN next_starts[1].start
                 ELSE total
         IN IntervalLoopLastEnd(Tail(todo), start_markers, end_markers, total,
                pre, post,
                IF seg_end > seg_start + MIN_LEN
                THEN Append(segs, Segment(seg_start, seg_end, start_m))
                ELSE segs)

\* the for loop of slice_interval over start_markers
RECURSIVE IntervalLoop(_, _, _, _, _, _, _)
IntervalLoop(todo, start_markers, end_markers, total, pre, post, segs) ==
    IF todo = <<>> THEN segs
    ELSE LET start_m == Head(todo)
             matching_ends == SelectSeq(end_markers,
                                        LAMBDA e : e.start > start_m.end)
             next_starts == SelectSeq(start_markers,
                                      LAMBDA s : s.start > start_m.end)
             seg_start == Max(0, start_m.end + post - pre)
             seg_end ==
                 IF matching_ends # <<>>
                 THEN Min(total, matching_ends[1].start - post + post)
                 ELSE IF next_starts # <<>> THEN next_starts[1].start
                 ELSE total
         IN IntervalLoop(Tail(todo), start_markers, end_markers, total, pre, post,
                IF seg_end > seg_start + MIN_LEN
                THEN Append(segs, Segment(seg_start, seg_end, start_m))
                ELSE segs)

interval_candidates(ms, total, pre, post) ==
    LET start_markers == OfType(ms, "START")
        end_markers == OfType(ms, "END")
    IN IF start_markers = <<>> THEN <<>>
       ELSE IntervalLoop(start_markers, start_markers, end_markers,
                         total, pre, post, <<>>)

slice_interval(ms, total, pre, post) ==
    IF OfType(ms, "START") = <<>>
    THEN <<>>
    ELSE _merge_overlapping(interval_candidates(ms, total, pre, post))

(***************************************************************************)
(* exporter.py                                                             *)
(***************************************************************************)
\* fps: float = 30.0, the value every caller uses
FPS == 30

\* f"{n:02d}" and f"{n:03d}"
Pad2(n) == IF 0 <= n /\ n < 10 THEN "0" \o ToString(n) ELSE ToString(n)
Pad3(n) == IF 0 <= n /\ n < 10 THEN "00" \o ToString(n)
           ELSE IF 0 <= n /\ n < 100 THEN "0" \o ToString(n) ELSE ToString(n)

\* int(round(seconds * fps)) for a time of t milliseconds
Frames(t, fps) == RoundDiv(t * fps, 1000)

\* SMPTE timecode HH:MM:SS:FF of a time of t milliseconds
_seconds_to_tc(t, fps) ==
    LET total_frames == Frames(t, fps)
        ff == total_frames % fps
        total_seconds == total_frames \div fps
        ss == total_seconds % 60
        mm == (total_seconds \div 60) % 60
        hh == total_seconds \div 3600
    IN Pad2(hh) \o ":" \o Pad2(mm) \o ":" \o Pad2(ss) \o ":" \o Pad2(ff)

\* a non-negative float of seconds: its integer part int(seconds) and its
\* fractional part seconds % 1 in microseconds
Seconds(whole, micros) == [whole |-> whole, micros |-> micros]

\* the float of a time of t milliseconds
OfMillis(t) == Seconds(t \div 1000, 1000 * (t % 1000))

\* SRT timecode HH:MM:SS,mmm of a non-negative time
_seconds_to_srt_tc(seconds) ==
    LET ms == RoundDiv(seconds.micros, 1000)
        total_s == seconds.whole
        ss == total_s % 60
        mm == (total_s \div 60) % 60
        hh == total_s \div 3600
    IN Pad2(hh) \o ":" \o Pad2(mm) \o ":" \o Pad2(ss) \o "," \o Pad3(ms)

\* a plausible slip: the sort without the filter
AllSorted(segs) == SortSegs(segs)

\* enabled = [s for s in segments if s.enabled and s.type == "keep"]
\* enabled.sort(key=lambda s: s.start)
EnabledKeep(segs) ==
    SortSegs(SelectSeq(segs, LAMBDA x : x.enabled /\ x.type = "keep"))

\* a plausible slip: record_offset is never advanced
RECURSIVE EdlEventsNoOffset(_, _, _, _, _)
EdlEventsNoOffset(enabled, i, record_offset, source_filename, fps) ==
    IF i > Len(enabled) THEN <<>>
    ELSE LET seg == enabled[i]
             duration == seg.end - seg.start
         IN <<[num |-> Pad3(i),
               src_in |-> _seconds_to_tc(seg.start, fps),
               src_out |-> _seconds_to_tc(seg.end, fps),
               rec_in |-> _seconds_to_tc(record_offset, fps),
               rec_out |-> _seconds_to_tc(record_offset + duration, fps),
               clip_name |-> source_filename]>>
            \o EdlEventsNoOffset(enabled, i + 1, record_offset,
                                 source_filename, fps)

\* the event lines of export_edl for the list `enabled` from index i on
RECURSIVE EdlEvents(_, _, _, _, _)
EdlEvents(enabled, i, record_offset, source_filename, fps) ==
    IF i > Len(enabled) THEN <<>>
    ELSE LET seg == enabled[i]
             duration == seg.end - seg.start
         IN <<[num |-> Pad3(i),
               src_in |-> _seconds_to_tc(seg.start, fps),
               src_out |-> _seconds_to_tc(seg.end, fps),
               rec_in |-> _seconds_to_tc(record_offset, fps),
               rec_out |-> _seconds_to_tc(record_offset + duration, fps),
               clip_name |-> source_filename]>>
            \o EdlEvents(enabled, i + 1, record_offset + duration,
                         source_filename, fps)

\* the EDL document: the TITLE and FCM lines and one event (event line and
\* clip-name comment line) per enabled keep segment
export_edl(segs, source_filename, fps, title) ==
    [title |-> title, fcm |-> "NON-DROP FRAME",
     events |-> EdlEvents(EnabledKeep(segs), 1, 0, source_filename, fps)]

\* the clip items of export_xml for the list `enabled` from index i on
RECURSIVE XmlClipItems(_, _, _, _, _)
XmlClipItems(enabled, i, timeline_offset, source_filename, fps) ==
    IF i > Len(enabled) THEN <<>>
    ELSE LET seg == enabled[i]
             seg_frames == Frames(seg.end - seg.start, fps)
             in_frame == Frames(seg.start, fps)
             out_frame == Frames(seg.end, fps)
         IN <<[id |-> "clipitem-" \o ToString(i),
               name |-> source_filename,
               duration |-> seg_frames,
               timebase |-> fps,
               start |-> timeline_offset,
               end |-> timeline_offset + seg_frames,
               in |-> in_frame,
               out |-> out_frame]>>
            \o XmlClipItems(enabled, i + 1, timeline_offset + seg_frames,
                            source_filename, fps)

\* sum(int(round((s.end - s.start) * fps)) for s in enabled)
RECURSIVE TotalFrames(_, _)
TotalFrames(enabled, fps) ==
    IF enabled = <<>> THEN 0
    ELSE Frames(Head(enabled).end - Head(enabled).start, fps)
         + TotalFrames(Tail(enabled), fps)

\* the XMEML document: the sequence name, duration and timebase and one clip
\* item per enabled keep segment; numbers stand for their decimal rendering
export_xml(segs, source_filename, fps, title) ==
    [name |-> title,
     duration |-> TotalFrames(EnabledKeep(segs), fps),
     timebase |-> fps,
     clipitems |-> XmlClipItems(EnabledKeep(segs), 1, 0, source_filename, fps)]

\* re.sub(re.escape(kw), "", text, flags=re.IGNORECASE) from position i on:
\* the non-overlapping occurrences, leftmost first; an empty kw removes nothing
RECURSIVE RemoveAll(_, _, _)
RemoveAll(text, kw, i) ==
    IF i > Len(text) THEN <<>>
    ELSE IF kw # <<>> /\ OccursAt(Lower(text), Lower(kw), i)
    THEN RemoveAll(text, kw, i + Len(kw))
    ELSE <<text[i]>> \o RemoveAll(text, kw, i + 1)

\* the loop over filter_keywords: remove and strip, keyword after keyword
RECURSIVE CleanText(_, _)
CleanText(text, kws) ==
    IF kws = <<>> THEN text
    ELSE CleanText(Strip(RemoveAll(text, Head(kws), 1)), Tail(kws))

\* the text of the cue: ts.text itself when there are no filter keywords
CueText(text, kws) == IF kws = <<>> THEN text ELSE CleanText(text, kws)

\* a plausible slip: the counter also advances for a dropped cue
RECURSIVE SrtSentencesGap(_, _, _, _, _, _)
SrtSentencesGap(seg, ts, j, kws, counter, time_offset) ==
    IF j > Len(ts) THEN <<>>
    ELSE IF ts[j].end <= seg.start \/ ts[j].start >= seg.end
    THEN SrtSentencesGap(seg, ts, j + 1, kws, counter, time_offset)
    ELSE LET sub_start == Max(ts[j].start, seg.start)
             sub_end == Min(ts[j].end, seg.end)
             text == CueText(ts[j].text, kws)
             rel_start == time_offset + (sub_start - seg.start)
             rel_end == time_offset + (sub_end - seg.start)
         IN IF text = <<>>
            THEN SrtSentencesGap(seg, ts, j + 1, kws, counter + 1, time_offset)
            ELSE <<[num |-> counter,
                    rel_start |-> rel_start,
                    rel_end |-> rel_end,
                    start_tc |-> _seconds_to_srt_tc(OfMillis(rel_start)),
                    end_tc |-> _seconds_to_srt_tc(OfMillis(rel_end)),
                    text |-> text]>>
                 \o SrtSentencesGap(seg, ts, j + 1, kws, counter + 1, time_offset)

\* the inner loop of export_srt over the transcript, from sentence j on, for
\* one segment; returns the cues appended and leaves the counter to the caller
RECURSIVE SrtSentences(_, _, _, _, _, _)
SrtSentences(seg, ts, j, kws, counter, time_offset) ==
    IF j > Len(ts) THEN <<>>
    ELSE IF ts[j].end <= seg.start \/ ts[j].start >= seg.end
    THEN SrtSentences(seg, ts, j + 1, kws, counter, time_offset)
    ELSE LET sub_start == Max(ts[j].start, seg.start)
             sub_end == Min(ts[j].end, seg.end)
             text == CueText(ts[j].text, kws)
             rel_start == time_offset + (sub_start - seg.start)
             rel_end == time_offset + (sub_end - seg.start)
         IN IF text = <<>>
            THEN SrtSentences(seg, ts, j + 1, kws, counter, time_offset)
            ELSE <<[num |-> counter,
                    rel_start |-> rel_start,
                    rel_end |-> rel_end,
                    start_tc |-> _seconds_to_srt_tc(OfMillis(rel_start)),
                    end_tc |-> _seconds_to_srt_tc(OfMillis(rel_end)),
                    text |-> text]>>
                 \o SrtSentences(seg, ts, j + 1, kws, counter + 1, time_offset)

\* the outer loop of export_srt over the list `enabled`, from index i on
RECURSIVE SrtCues(_, _, _, _, _, _)
SrtCues(enabled, i, ts, kws, counter, time_offset) ==
    IF i > Len(enabled) THEN <<>>
    ELSE LET seg == enabled[i]
             cues == SrtSentences(seg, ts, 1, kws, counter, time_offset)
         IN cues \o SrtCues(enabled, i + 1, ts, kws, counter + Len(cues),
                            time_offset + (seg.end - seg.start))

\* the SRT document: its cues in order
export_srt(segs, ts, kws) ==
    SrtCues(EnabledKeep(segs), 1, ts, [k \in DOMAIN kws |-> Lower(kws[k])], 1, 0)

\* the caller's list after an exporter ran: the comprehension builds a new
\* list and enabled.sort() sorts that list, so the argument keeps its order
AfterExport(segs) == segs

(***************************************************************************)
(* segments.py                                                             *)
(***************************************************************************)
\* toggle_segment on the segment at position i of the stored list
toggle_segment(segs, i) == [segs EXCEPT ![i].enabled = ~segs[i].enabled]

(***************************************************************************)
(* Keyword settings                                                        *)
(***************************************************************************)
\* keyword settings: upper-case keywords as in the defaults, a four-letter
\* keyword that is matched over a window of words
KeywordsA == [ng |-> << <<"N", "G">> >>, ok |-> << <<"O", "K">> >>,
              start |-> << <<"g", "o", "g", "o">> >>, end |-> <<>>]
\* a keyword with a trailing blank, an empty category
KeywordsB == [ng |-> <<>>, ok |-> << <<"o", "k", " ">> >>,
              start |-> <<>>, end |-> << <<"g", "o">> >>]
KeywordConfigs == {KeywordsA, KeywordsB}

\* no exporter has been called
NoExport == [kind |-> "none", args |-> <<>>, doc |-> <<>>]

(***************************************************************************)
(* The stored project and the requests on it                               *)
(***************************************************************************)
\* Optional[...] values: None is <<>>, a value v is <<v>>
None == <<>>
Some(v) == <<v>>

\* progress is kept in units of 1/PROGRESS_ONE
PROGRESS_ONE == 10000

\* ProjectStatus
ProjectStatus == {"created", "uploading", "uploaded", "analyzing", "analyzed", "error"}

\* Project(...): the fields of project.json the analysis reads and writes;
\* error_message None is the empty string
Project(st, pr, msg, mode) ==
    [status |-> st, progress |-> pr, error_message |-> msg, mode |-> mode]

\* a background task that has not been added: its position, its local
\* `project` object and the locals of _run_analysis and transcribe
NoRun == [pc |-> "idle", project |-> Project("created", 0, "", "backtrack"),
          duration |-> 0, heard |-> <<>>, total |-> 0, done |-> 0, p |-> 0,
          result |-> <<>>, markers |-> <<>>, segments |-> <<>>, raised |-> ""]

\* SegmentUpdate with neither field given
NoBody == [start |-> None, end |-> None]

\* no segment handler is between its load and its save
NoRequest == [kind |-> "none", segments |-> <<>>, target |-> 0, body |-> NoBody]

\* no request has been answered
NoResponse == [endpoint |-> "none", status |-> 0]

RunIds == 1..MaxRuns

\* the state of the project store while only the core functions are called
ApiIdle ==
    /\ project = Project("created", 0, "", "backtrack")
    /\ segments_json = None
    /\ video = FALSE
    /\ exports_dir = {}
    /\ response = NoResponse
    /\ runs = [r \in RunIds |-> NoRun]
    /\ request = NoRequest

(***************************************************************************)
(* Slicing: inputs and operations                                          *)
(***************************************************************************)
\* [start, end] spans of the markers handed to the slicers (ms)
MarkerSpans == {<<0, 100>>, <<1000, 8000>>, <<2000, 2500>>,
                <<10000, 10500>>, <<30000, 31000>>}

MarkerValues ==
    {Marker(t, <<>>, sp[1], sp[2], 1000) : t \in MarkerType, sp \in MarkerSpans}

\* detect_markers returns its list sorted by start
MarkerLists == {ms \in SeqsUpTo(MarkerValues, MaxMarkers) : SortedByStart(ms)}

Durations == {20000, 60000}

\* <<pre_buffer, post_buffer>>
BufferPairs == {<<500, 300>>, <<0, 0>>, <<300, 500>>}

InitSlice ==
    /\ transcript = <<>>
    /\ keywords = KeywordsA
    /\ markers \in MarkerLists
    /\ total_duration \in Durations
    /\ \E b \in BufferPairs : pre_buffer = b[1] /\ post_buffer = b[2]
    /\ cands = <<>>
    /\ segments = <<>>
    /\ remerged = <<>>
    /\ filter_keywords = <<>>
    /\ export = NoExport
    /\ phase = "input"
    /\ ApiIdle

SliceBacktrack ==
    /\ phase = "input"
    /\ cands' = backtrack_candidates(markers, total_duration, pre_buffer, post_buffer)
    /\ segments' = slice_backtrack(markers, total_duration, pre_buffer, post_buffer)
    /\ phase' = "backtrack"
    /\ UNCHANGED exportVars
    /\ UNCHANGED <<apiVars, detectVars, markers, total_duration, pre_buffer, post_buffer,
                   remerged>>

SliceInterval ==
    /\ phase = "input"
    /\ cands' = interval_candidates(markers, total_duration, pre_buffer, post_buffer)
    /\ segments' = slice_interval(markers, total_duration, pre_buffer, post_buffer)
    /\ phase' = "interval"
    /\ UNCHANGED exportVars
    /\ UNCHANGED <<apiVars, detectVars, markers, total_duration, pre_buffer, post_buffer,
                   remerged>>

NextSlice == SliceBacktrack \/ SliceInterval

SpecSlice == InitSlice /\ [][NextSlice]_vars

\* slicing parameters outside their domain: a total duration that is zero or
\* negative, a negative buffer (ProjectSettings accepts any float)
InvalidParams ==
    {<<0, 500, 300>>, <<0 - 5000, 500, 300>>, <<20000, 0 - 500, 300>>,
     <<20000, 500, 0 - 300>>, <<0, 0 - 500, 0 - 300>>}

InitSliceInvalid ==
    /\ transcript = <<>>
    /\ keywords = KeywordsA
    /\ markers \in MarkerLists
    /\ \E prm \in InvalidParams :
          /\ total_duration = prm[1]
          /\ pre_buffer = prm[2]
          /\ post_buffer = prm[3]
    /\ cands = <<>>
    /\ segments = <<>>
    /\ remerged = <<>>
    /\ filter_keywords = <<>>
    /\ export = NoExport
    /\ phase = "input"
    /\ ApiIdle

SpecSliceInvalid == InitSliceInvalid /\ [][NextSlice]_vars

(***************************************************************************)
(* Detection: inputs and operations                                        *)
(***************************************************************************)
WordTexts == {<<"O", "K">>, <<"g", "o">>}
SentenceTexts == {<<"g", "o", " ", "O", "K">>, <<"g", "o">>}

\* sentence k spans [SentStart(k), SentEnd(k)]
SentStart(k) == (k - 1) * 2000
SentEnd(k) == SentStart(k) + 1000
\* word j of sentence k starts half a second after word j - 1 and either is
\* 0.3 s long or lasts until the end of the sentence
WordStart(k, j) == SentStart(k) + (j - 1) * 500
WordEnd(k, j, untilEnd) == IF untilEnd THEN SentEnd(k) ELSE WordStart(k, j) + 300

TranscriptWord(w, s, e) == [word |-> w, start |-> s, end |-> e, confidence |-> 0]

TranscriptSegment(t, s, e, ws) == [text |-> t, start |-> s, end |-> e, words |-> ws]

\* the sentences that can stand at position k with at most n words; every
\* sentence and word has start <= end and the words are sorted by start
SentenceChoices(k, n) ==
    {TranscriptSegment(t, SentStart(k), SentEnd(k),
        [j \in DOMAIN ws |->
            TranscriptWord(ws[j][1], WordStart(k, j), WordEnd(k, j, ws[j][2]))]) :
        t \in SentenceTexts, ws \in SeqsUpTo(WordTexts \X BOOLEAN, n)}

\* the transcripts of sentences k, k + 1, ... with at most n words in all
RECURSIVE TranscriptsFrom(_, _)
TranscriptsFrom(k, n) ==
    IF k > MaxSentences THEN {<<>>}
    ELSE {<<>>} \cup
         UNION {{<<s>> \o rest : rest \in TranscriptsFrom(k + 1, n - Len(s.words))} :
                s \in SentenceChoices(k, n)}

Transcripts == TranscriptsFrom(1, MaxWords)

InitDetect ==
    /\ transcript \in Transcripts
    /\ keywords \in KeywordConfigs
    /\ markers = <<>>
    /\ total_duration = 20000
    /\ pre_buffer = 500
    /\ post_buffer = 300
    /\ cands = <<>>
    /\ segments = <<>>
    /\ remerged = <<>>
    /\ filter_keywords = <<>>
    /\ export = NoExport
    /\ phase = "input"
    /\ ApiIdle

DetectMarkers ==
    /\ phase = "input"
    /\ markers' = detect_markers(transcript, keywords)
    /\ phase' = "detected"
    /\ UNCHANGED exportVars
    /\ UNCHANGED <<apiVars, detectVars, total_duration, pre_buffer, post_buffer, cands,
                   segments, remerged>>

\* _run_analysis step 5 with mode = backtrack, on the detected markers
DetectedBacktrack ==
    /\ phase = "detected"
    /\ cands' = backtrack_candidates(markers, total_duration, pre_buffer, post_buffer)
    /\ segments' = slice_backtrack(markers, total_duration, pre_buffer, post_buffer)
    /\ phase' = "backtrack"
    /\ UNCHANGED exportVars
    /\ UNCHANGED <<apiVars, detectVars, markers, total_duration, pre_buffer, post_buffer,
                   remerged>>

\* _run_analysis step 5 with mode = interval, on the detected markers
DetectedInterval ==
    /\ phase = "detected"
    /\ cands' = interval_candidates(markers, total_duration, pre_buffer, post_buffer)
    /\ segments' = slice_interval(markers, total_duration, pre_buffer, post_buffer)
    /\ phase' = "interval"
    /\ UNCHANGED exportVars
    /\ UNCHANGED <<apiVars, detectVars, markers, total_duration, pre_buffer, post_buffer,
                   remerged>>

NextDetect == DetectMarkers \/ DetectedBacktrack \/ DetectedInterval

SpecDetect == InitDetect /\ [][NextDetect]_vars

(***************************************************************************)
(* Merge pass alone: inputs and operations                                 *)
(***************************************************************************)
\* [start, end] spans of the segments handed to the merge pass (ms); 1050 is
\* within the 50 ms tolerance of an end at 1000, 1051 is not
SegSpans == {<<0, 1000>>, <<100, 200>>, <<300, 400>>, <<1050, 1500>>,
             <<1051, 3000>>, <<2000, 2500>>}

SegLists == SeqsUpTo({Segment(sp[1], sp[2], NoMarker) : sp \in SegSpans}, MaxSegs)

InitMerge ==
    /\ transcript = <<>>
    /\ keywords = KeywordsA
    /\ markers = <<>>
    /\ total_duration \in Durations
    /\ pre_buffer = 500
    /\ post_buffer = 300
    /\ cands \in SegLists
    /\ segments = <<>>
    /\ remerged = <<>>
    /\ filter_keywords = <<>>
    /\ export = NoExport
    /\ phase = "input"
    /\ ApiIdle

\* segments = _merge_overlapping(segments)
MergePass ==
    /\ phase = "input"
    /\ segments' = _merge_overlapping(cands)
    /\ phase' = "merged"
    /\ UNCHANGED exportVars
    /\ UNCHANGED <<apiVars, detectVars, markers, total_duration, pre_buffer, post_buffer,
                   cands, remerged>>

\* _merge_overlapping applied to its own result
Remerge ==
    /\ phase = "merged"
    /\ remerged' = _merge_overlapping(segments)
    /\ phase' = "remerged"
    /\ UNCHANGED exportVars
    /\ UNCHANGED <<apiVars, detectVars, markers, total_duration, pre_buffer, post_buffer,
                   cands, segments>>

NextMerge == MergePass \/ Remerge

SpecMerge == InitMerge /\ [][NextMerge]_vars

(***************************************************************************)
(* Export: inputs and operations                                           *)
(***************************************************************************)
\* [start, end] spans of the stored segments (ms); 2040 ms is 61.2 frames;
\* [13, 220] starts at 0.39 frames, ends at 6.6 frames and is 6.21 frames long
ExportSpans == {<<10000, 15000>>, <<0, 2040>>, <<12000, 20017>>, <<13, 220>>}

\* stored segments as the slicer creates them (enabled), of either type
ExportSegs ==
    {[type |-> t, start |-> sp[1], end |-> sp[2], trigger_marker |-> NoMarker,
      enabled |-> TRUE, manual_adjusted |-> FALSE] :
        t \in {"keep", "discard"}, sp \in ExportSpans}

ExportSegLists == SeqsUpTo(ExportSegs, MaxExportSegs)

Sentence(t, s, e) == TranscriptSegment(t, s, e, <<>>)

\* a sentence across the start of [10, 15], one inside it whose text is a
\* keyword, one spanning all segments with a keyword and more
ExportTranscripts ==
    { << Sentence(<<"h", "i">>, 9000, 11000),
         Sentence(<<"O", "K">>, 12000, 13000),
         Sentence(<<"g", "o">>, 14000, 21000) >>,
      << Sentence(<<"o", "k", " ", "h", "i">>, 1000, 16000) >> }

ExportFilters == {<<>>, << <<"O", "K">>, <<"N", "G">> >>}

SourceFilename == "take.mp4"
Title == "demo_clipflow"

InitExport ==
    /\ transcript \in ExportTranscripts
    /\ keywords = KeywordsA
    /\ markers = <<>>
    /\ total_duration = 60000
    /\ pre_buffer = 500
    /\ post_buffer = 300
    /\ cands = <<>>
    /\ segments \in ExportSegLists
    /\ remerged = <<>>
    /\ filter_keywords \in ExportFilters
    /\ export = NoExport
    /\ phase = "stored"
    /\ ApiIdle

\* PUT /segments/{id}/toggle
ToggleSegment ==
    /\ phase = "stored"
    /\ \E i \in DOMAIN segments : segments' = toggle_segment(segments, i)
    /\ UNCHANGED <<apiVars, detectVars, markers, total_duration, pre_buffer, post_buffer,
                   cands, remerged, exportVars, phase>>

ExportEdl ==
    /\ phase = "stored"
    /\ export' = [kind |-> "edl", args |-> segments,
                  doc |-> export_edl(segments, SourceFilename, FPS, Title)]
    /\ segments' = AfterExport(segments)
    /\ UNCHANGED <<apiVars, detectVars, markers, total_duration, pre_buffer, post_buffer,
                   cands, remerged, filter_keywords, phase>>

ExportXml ==
    /\ phase = "stored"
    /\ export' = [kind |-> "xml", args |-> segments,
                  doc |-> export_xml(segments, SourceFilename, FPS, Title)]
    /\ segments' = AfterExport(segments)
    /\ UNCHANGED <<apiVars, detectVars, markers, total_duration, pre_buffer, post_buffer,
                   cands, remerged, filter_keywords, phase>>

ExportSrt ==
    /\ phase = "stored"
    /\ export' = [kind |-> "srt", args |-> segments,
                  doc |-> export_srt(segments, transcript, filter_keywords)]
    /\ segments' = AfterExport(segments)
    /\ UNCHANGED <<apiVars, detectVars, markers, total_duration, pre_buffer, post_buffer,
                   cands, remerged, filter_keywords, phase>>

NextExport == ToggleSegment \/ ExportEdl \/ ExportXml \/ ExportSrt

SpecExport == InitExport /\ [][NextExport]_vars

\* times handed to _seconds_to_srt_tc: whole seconds at and around the minute
\* and hour boundaries, with fractions (microseconds) on the millisecond
\* grid, just below and above half a millisecond, and within half a
\* millisecond of the next whole second (no fraction is an exact tie)
WholeSeconds ==
    {3600 * h + 60 * m + sec : h \in 0..MaxHours, m \in {0, 59}, sec \in {0, 1, 59}}

Fractions ==
    {0, 1, 499, 501, 250000, 123456, 998999, 999499, 999501, 999600, 999999}

SrtSeconds == {Seconds(w, f) : w \in WholeSeconds, f \in Fractions}

InitSrtTimecode ==
    /\ transcript = <<>>
    /\ keywords = KeywordsA
    /\ markers = <<>>
    /\ total_duration = 60000
    /\ pre_buffer = 500
    /\ post_buffer = 300
    /\ cands = <<>>
    /\ segments = <<>>
    /\ remerged = <<>>
    /\ filter_keywords = <<>>
    /\ \E u \in SrtSeconds : export = [kind |-> "seconds", args |-> u, doc |-> <<>>]
    /\ phase = "seconds"
    /\ ApiIdle

\* one call _seconds_to_srt_tc(seconds), as export_srt makes for each end of a
\* cue
SrtTimecode ==
    /\ phase = "seconds"
    /\ export' = [kind |-> "srt_tc", args |-> export.args,
                  doc |-> _seconds_to_srt_tc(export.args)]
    /\ phase' = "timecode"
    /\ UNCHANGED <<apiVars, detectVars, sliceVars, filter_keywords>>

NextSrtTimecode == SrtTimecode

SpecSrtTimecode == InitSrtTimecode /\ [][NextSrtTimecode]_vars

(***************************************************************************)
(* api/export.py and api/segments.py: the endpoints on the stored segments *)
(***************************************************************************)
\* Python's `not x` for an Optional list: None or the empty list
Falsy(opt) == opt = None \/ opt[1] = <<>>

\* filter_kw of export_srt_file: the four keyword lists, concatenated
FilterKw(kws) == kws.ng \o kws.ok \o kws.start \o kws.end

\* enabled of export_video_file: the (start, end) pairs of the enabled keep
\* segments, in stored order
VideoPairs(segs) ==
    LET keep == SelectSeq(segs, LAMBDA x : x.enabled /\ x.type = "keep")
    IN [i \in DOMAIN keep |-> <<keep[i].start, keep[i].end>>]

ProjectName == "demo"

Rejected(endpoint, code) == [endpoint |-> endpoint, status |-> code]
Answered(endpoint) == [endpoint |-> endpoint, status |-> 200]

InitExportApi ==
    /\ transcript \in {<<>>, << Sentence(<<"h", "i">>, 9000, 11000) >>}
    /\ keywords = KeywordsA
    /\ markers = <<>>
    /\ total_duration = 60000
    /\ pre_buffer = 500
    /\ post_buffer = 300
    /\ cands = <<>>
    /\ segments = <<>>
    /\ remerged = <<>>
    /\ filter_keywords = <<>>
    /\ export = NoExport
    /\ phase = "api"
    /\ project = Project("analyzed", PROGRESS_ONE, "", "backtrack")
    /\ segments_json \in {None} \cup {Some(L) : L \in ExportSegLists}
    /\ video \in BOOLEAN
    /\ exports_dir = {}
    /\ response = NoResponse
    /\ runs = [r \in RunIds |-> NoRun]
    /\ request = NoRequest

\* PUT /segments/{segment_id}/toggle, the handler as one step
ToggleSegmentFile ==
    /\ phase = "api"
    /\ IF segments_json = None
       THEN /\ response' = Rejected("toggle", 404)
            /\ UNCHANGED segments_json
       ELSE \/ \E i \in DOMAIN segments_json[1] :
                  /\ segments_json' = Some(toggle_segment(segments_json[1], i))
                  /\ response' = Answered("toggle")
            \/ /\ response' = Rejected("toggle", 404)
               /\ UNCHANGED segments_json
    /\ UNCHANGED <<detectVars, sliceVars, exportVars, phase, project, video,
                   exports_dir, runs, request>>

\* POST /export/edl
ExportEdlFile ==
    /\ phase = "api"
    /\ IF Falsy(segments_json)
       THEN /\ response' = Rejected("edl", 400)
            /\ UNCHANGED <<export, exports_dir>>
       ELSE /\ export' = [kind |-> "edl", args |-> segments_json[1],
                          doc |-> export_edl(segments_json[1], SourceFilename,
                                             FPS, Title)]
            /\ exports_dir' = exports_dir \cup {ProjectName \o ".edl"}
            /\ response' = Answered("edl")
    /\ UNCHANGED <<detectVars, sliceVars, filter_keywords, phase, project,
                   segments_json, video, runs, request>>

\* POST /export/xml
ExportXmlFile ==
    /\ phase = "api"
    /\ IF Falsy(segments_json)
       THEN /\ response' = Rejected("xml", 400)
            /\ UNCHANGED <<export, exports_dir>>
       ELSE /\ export' = [kind |-> "xml", args |-> segments_json[1],
                          doc |-> export_xml(segments_json[1], SourceFilename,
                                             FPS, Title)]
            /\ exports_dir' = exports_dir \cup {ProjectName \o ".xml"}
            /\ response' = Answered("xml")
    /\ UNCHANGED <<detectVars, sliceVars, filter_keywords, phase, project,
                   segments_json, video, runs, request>>

\* POST /export/srt
ExportSrtFile ==
    /\ phase = "api"
    /\ IF Falsy(segments_json) \/ transcript = <<>>
       THEN /\ response' = Rejected("srt", 400)
            /\ UNCHANGED <<export, exports_dir>>
       ELSE /\ export' = [kind |-> "srt", args |-> segments_json[1],
                          doc |-> export_srt(segments_json[1], transcript,
                                             FilterKw(keywords))]
            /\ exports_dir' = exports_dir \cup {ProjectName \o ".srt"}
            /\ response' = Answered("srt")
    /\ UNCHANGED <<detectVars, sliceVars, filter_keywords, phase, project,
                   segments_json, video, runs, request>>

\* POST /export/video; concat_segments_to_video writes the output file
ExportVideoFile ==
    /\ phase = "api"
    /\ IF Falsy(segments_json) \/ ~video
       THEN /\ response' = Rejected("video", 400)
            /\ UNCHANGED <<export, exports_dir>>
       ELSE IF VideoPairs(segments_json[1]) = <<>>
       THEN /\ response' = Rejected("video", 400)
            /\ UNCHANGED <<export, exports_dir>>
       ELSE /\ export' = [kind |-> "video", args |-> segments_json[1],
                          doc |-> VideoPairs(segments_json[1])]
            /\ exports_dir' = exports_dir \cup {ProjectName \o "_export.mp4"}
            /\ response' = Answered("video")
    /\ UNCHANGED <<detectVars, sliceVars, filter_keywords, phase, project,
                   segments_json, video, runs, request>>

NextExportApi ==
    \/ ToggleSegmentFile
    \/ ExportEdlFile
    \/ ExportXmlFile
    \/ ExportSrtFile
    \/ ExportVideoFile

SpecExportApi == InitExportApi /\ [][NextExportApi]_vars

(***************************************************************************)
(* core/transcribe.py and api/projects.py: the analysis run                *)
(***************************************************************************)
\* what model.transcribe yields: info.duration and the recognizer's segments
\* (text and words as the recognizer gives them, with a leading blank)
Heard(d, segs) == [duration |-> d, segs |-> segs]

\* an NG take and an OK cue inside a 20 s recording; a recording whose
\* info.duration is 0 with a segment that ends after 1 s
Recognized ==
    { Heard(20000, << TranscriptSegment(<<" ", "N", "G">>, 1000, 2000,
                          << TranscriptWord(<<" ", "N", "G">>, 1000, 2000) >>),
                      TranscriptSegment(<<" ", "O", "K">>, 10000, 11000,
                          << TranscriptWord(<<" ", "O", "K">>, 10000, 11000) >>) >>),
      Heard(0, << TranscriptSegment(<<" ", "h", "i">>, 500, 1500, <<>>) >>) }

\* total_duration = info.duration if info.duration > 0 else 1.0
TotalOf(d) == IF d > 0 THEN d ELSE 1000

\* a plausible slip: the fraction without the cap at 1.0
FractionUncapped(end, total) == (end * PROGRESS_ONE) \div total

\* progress = min(segment.end / total_duration, 1.0)
FractionOf(end, total) == Min((end * PROGRESS_ONE) \div total, PROGRESS_ONE)

\* the TranscriptSegment transcribe appends for a recognizer segment
Transcribed(seg) ==
    TranscriptSegment(Strip(seg.text), seg.start, seg.end,
        [j \in DOMAIN seg.words |->
            TranscriptWord(Strip(seg.words[j].word), seg.words[j].start,
                           seg.words[j].end)])

\* the list transcribe returns for the recognizer's segments
TranscribedAll(segs) == [k \in DOMAIN segs |-> Transcribed(segs[k])]

\* detect_markers(transcript_segments, ...) with the keywords of the project,
\* tabulated over the transcripts transcribe can return
Detected ==
    [ts \in {TranscribedAll(h.segs) : h \in Recognized} |->
        detect_markers(ts, KeywordsA)]

\* on_stt_progress: project.progress = 0.2 + p * 0.5
SttProgress(p) == (2 * PROGRESS_ONE) \div 10 + p \div 2

\* the checkpoints of _run_analysis
Checkpoint(k) == (k * PROGRESS_ONE) \div 100

\* the messages of the exceptions the collaborators raise
Errors == [video |-> "video file not found", probe |-> "FFprobe failed",
           extract |-> "FFmpeg audio extraction failed",
           transcribe |-> "transcription failed",
           save |-> "cannot write file"]

\* the run r, changed
SetRun(r, rec) == [runs EXCEPT ![r] = rec]

\* project.progress = v; save_project(project)
Progressed(run, v, pc) ==
    [run EXCEPT !.project.progress = v, !.pc = pc]

\* a plausible slip: the handler records the message but not the status
CaughtKeepStatus(run, msg) ==
    [run EXCEPT !.project.error_message = msg, !.raised = msg, !.pc = "done"]

\* except Exception as e: status ERROR, error_message = str(e), save_project
Caught(run, msg) ==
    [run EXCEPT !.project.status = "error", !.project.error_message = msg,
                !.raised = msg, !.pc = "done"]

\* PATCH /segments/{segment_id} applied to the segment at position i
update_segment(segs, i, body) ==
    [segs EXCEPT ![i] =
        [@ EXCEPT !.start = IF body.start # None THEN body.start[1] ELSE @,
                  !.end = IF body.end # None THEN body.end[1] ELSE @,
                  !.manual_adjusted = TRUE]]

\* request bodies of PATCH
Bodies == {[start |-> Some(500), end |-> None]}

\* what get_video_duration returns (ms)
Probed == {20000}

InitAnalysis ==
    /\ transcript = <<>>
    /\ keywords = KeywordsA
    /\ markers = <<>>
    /\ total_duration = 0
    /\ pre_buffer = 500
    /\ post_buffer = 300
    /\ cands = <<>>
    /\ segments = <<>>
    /\ remerged = <<>>
    /\ filter_keywords = <<>>
    /\ export = NoExport
    /\ phase = "api"
    /\ \E mode \in {"backtrack", "interval"} :
          project = Project("uploaded", 0, "", mode)
    /\ segments_json = None
    /\ video = TRUE
    /\ exports_dir = {}
    /\ response = NoResponse
    /\ runs = [r \in RunIds |-> NoRun]
    /\ request = NoRequest

\* what a step of the analysis or a segment handler leaves alone
AnalysisFrame ==
    UNCHANGED <<keywords, markers, total_duration, pre_buffer, post_buffer,
                cands, segments, remerged, exportVars, phase, video, exports_dir>>

\* POST /analyze: 409 while the stored status is ANALYZING, 400 without a
\* video, else the task is added to the background tasks
analyze_project ==
    /\ phase = "api"
    /\ \E r \in RunIds : runs[r].pc = "idle"
    /\ IF project.status = "analyzing"
       THEN /\ response' = Rejected("analyze", 409)
            /\ UNCHANGED runs
       ELSE IF ~video
       THEN /\ response' = Rejected("analyze", 400)
            /\ UNCHANGED runs
       ELSE LET r == CHOOSE q \in RunIds :
                         runs[q].pc = "idle" /\ \A o \in RunIds : runs[o].pc = "idle" => q <= o
            IN /\ runs' = SetRun(r, [runs[r] EXCEPT !.pc = "queued"])
               /\ response' = Answered("analyze")
    /\ UNCHANGED <<transcript, project, segments_json, request>>
    /\ AnalysisFrame

\* _run_analysis starts: project = load_project(project_id)
RunLoad(r) ==
    /\ runs[r].pc = "queued"
    /\ runs' = SetRun(r, [runs[r] EXCEPT !.project = project, !.pc = "loaded"])
    /\ UNCHANGED <<transcript, project, segments_json, response, request>>
    /\ AnalysisFrame

\* status = ANALYZING, progress = 0.0, save_project
RunBegin(r) ==
    /\ runs[r].pc = "loaded"
    /\ runs' = SetRun(r, [runs[r] EXCEPT !.project.status = "analyzing",
                                         !.project.progress = 0,
                                         !.pc = "started"])
    /\ project' = runs'[r].project
    /\ UNCHANGED <<transcript, segments_json, response, request>>
    /\ AnalysisFrame

\* get_video_path; progress 0.05 and the duration probe begins
RunProbe(r) ==
    /\ runs[r].pc = "started"
    /\ runs' = SetRun(r, IF ~video THEN Caught(runs[r], Errors.video)
                         ELSE Progressed(runs[r], Checkpoint(5), "probing"))
    /\ project' = runs'[r].project
    /\ UNCHANGED <<transcript, segments_json, response, request>>
    /\ AnalysisFrame

\* get_video_duration returns or raises; progress 0.1 and the audio
\* extraction begins
RunExtract(r) ==
    /\ runs[r].pc = "probing"
    /\ \/ runs' = SetRun(r, Caught(runs[r], Errors.probe))
       \/ \E d \in Probed :
            runs' = SetRun(r, [Progressed(runs[r], Checkpoint(10), "extracting")
                                  EXCEPT !.duration = d])
    /\ project' = runs'[r].project
    /\ UNCHANGED <<transcript, segments_json, response, request>>
    /\ AnalysisFrame

\* extract_audio returns or raises; progress 0.2 and transcribe begins
RunTranscribe(r) ==
    /\ runs[r].pc = "extracting"
    /\ \/ runs' = SetRun(r, Caught(runs[r], Errors.extract))
       \/ \E h \in Recognized :
            runs' = SetRun(r, [Progressed(runs[r], Checkpoint(20), "transcribing")
                                  EXCEPT !.heard = h.segs, !.total = TotalOf(h.duration),
                                         !.done = 0, !.p = 0, !.result = <<>>])
    /\ project' = runs'[r].project
    /\ UNCHANGED <<transcript, segments_json, response, request>>
    /\ AnalysisFrame

\* one iteration of the loop of transcribe: the recognizer yields a segment
\* (or raises), it is appended and the progress callback saves the project
RunHear(r) ==
    /\ runs[r].pc = "transcribing"
    /\ runs[r].done < Len(runs[r].heard)
    /\ \/ runs' = SetRun(r, Caught(runs[r], Errors.transcribe))
       \/ LET seg == runs[r].heard[runs[r].done + 1]
              progress == FractionOf(seg.end, runs[r].total)
          IN runs' = SetRun(r, [Progressed(runs[r], SttProgress(progress), "transcribing")
                                   EXCEPT !.done = @ + 1, !.p = progress,
                                          !.result = Append(@, Transcribed(seg))])
    /\ project' = runs'[r].project
    /\ UNCHANGED <<transcript, segments_json, response, request>>
    /\ AnalysisFrame

\* transcribe returns; save_transcript writes or raises; progress 0.75
RunDetect(r) ==
    /\ runs[r].pc = "transcribing"
    /\ runs[r].done = Len(runs[r].heard)
    /\ \/ /\ runs' = SetRun(r, Caught(runs[r], Errors.save))
          /\ UNCHANGED transcript
       \/ /\ transcript' = runs[r].result
          /\ runs' = SetRun(r, Progressed(runs[r], Checkpoint(75), "detecting"))
    /\ project' = runs'[r].project
    /\ UNCHANGED <<segments_json, response, request>>
    /\ AnalysisFrame

\* detect_markers; progress 0.85
RunSlice(r) ==
    /\ runs[r].pc = "detecting"
    /\ runs' = SetRun(r, [Progressed(runs[r], Checkpoint(85), "slicing")
                             EXCEPT !.markers = Detected[runs[r].result]])
    /\ project' = runs'[r].project
    /\ UNCHANGED <<transcript, segments_json, response, request>>
    /\ AnalysisFrame

\* slice_interval or slice_backtrack; save_segments writes or raises
RunSave(r) ==
    /\ runs[r].pc = "slicing"
    /\ LET sliced == IF runs[r].project.mode = "interval"
                     THEN slice_interval(runs[r].markers, runs[r].duration,
                                         pre_buffer, post_buffer)
                     ELSE slice_backtrack(runs[r].markers, runs[r].duration,
                                          pre_buffer, post_buffer)
       IN \/ /\ runs' = SetRun(r, Caught([runs[r] EXCEPT !.segments = sliced],
                                         Errors.save))
             /\ project' = runs'[r].project
             /\ UNCHANGED segments_json
          \/ /\ runs' = SetRun(r, [runs[r] EXCEPT !.segments = sliced, !.pc = "saved"])
             /\ segments_json' = Some(sliced)
             /\ UNCHANGED project
    /\ UNCHANGED <<transcript, response, request>>
    /\ AnalysisFrame

\* status = ANALYZED, progress = 1.0, save_project
RunFinish(r) ==
    /\ runs[r].pc = "saved"
    /\ runs' = SetRun(r, [runs[r] EXCEPT !.project.status = "analyzed",
                                         !.project.progress = PROGRESS_ONE,
                                         !.pc = "done"])
    /\ project' = runs'[r].project
    /\ UNCHANGED <<transcript, segments_json, response, request>>
    /\ AnalysisFrame

\* update_segment / toggle_segment up to the lookup of the target:
\* load_segments, 404 without segments.json or without the segment
SegmentLoad ==
    /\ phase = "api"
    /\ request = NoRequest
    /\ \E kind \in {"patch", "toggle"} :
         IF segments_json = None
         THEN /\ response' = Rejected(kind, 404)
              /\ UNCHANGED request
         ELSE \/ /\ response' = Rejected(kind, 404)
                 /\ UNCHANGED request
              \/ \E i \in DOMAIN segments_json[1], body \in Bodies :
                   /\ request' = [kind |-> kind, segments |-> segments_json[1],
                                  target |-> i,
                                  body |-> IF kind = "patch" THEN body ELSE NoBody]
                   /\ UNCHANGED response
    /\ UNCHANGED <<transcript, project, segments_json, runs>>
    /\ AnalysisFrame

\* update_segment / toggle_segment from the change of the target on:
\* the loaded list is changed and save_segments writes it
SegmentSave ==
    /\ request # NoRequest
    /\ segments_json' =
          Some(IF request.kind = "patch"
               THEN update_segment(request.segments, request.target, request.body)
               ELSE toggle_segment(request.segments, request.target))
    /\ response' = Answered(request.kind)
    /\ request' = NoRequest
    /\ UNCHANGED <<transcript, project, runs>>
    /\ AnalysisFrame

RunStep(r) ==
    \/ RunLoad(r)
    \/ RunBegin(r)
    \/ RunProbe(r)
    \/ RunExtract(r)
    \/ RunTranscribe(r)
    \/ RunHear(r)
    \/ RunDetect(r)
    \/ RunSlice(r)
    \/ RunSave(r)
    \/ RunFinish(r)

NextAnalysis ==
    \/ analyze_project
    \/ \E r \in RunIds : RunStep(r)
    \/ SegmentLoad
    \/ SegmentSave

SpecAnalysis == InitAnalysis /\ [][NextAnalysis]_vars

\* every task that was added runs to its end
FairAnalysis == SpecAnalysis /\ \A r \in RunIds : WF_vars(RunStep(r))

(***************************************************************************)
(* Claims about the slicers                                                *)
(***************************************************************************)
\* <<start, end>> of every segment of a list, in order
Spans(segs) == [i \in DOMAIN segs |-> <<segs[i].start, segs[i].end>>]

SetMax(S) == CHOOSE x \in S : \A y \in S : y <= x
SetMin(S) == CHOOSE x \in S : \A y \in S : x <= y

Sliced == phase \in {"backtrack", "interval"}

HasType(t) == \E i \in DOMAIN markers : markers[i].type = t

\* C1: the list returned by slice_backtrack and slice_interval is sorted by
\* start and pairwise non-overlapping: a.start <= a.end < b.start for every
\* two consecutive returned segments a, b.
C1_SortedDisjoint ==
    Sliced =>
        /\ \A i \in DOMAIN segments : segments[i].start <= segments[i].end
        /\ \A i \in 1..(Len(segments) - 1) :
              segments[i].end < segments[i + 1].start

\* a run in which the merge pass joined candidates and two segments remain
C1_Witness ==
    /\ Sliced
    /\ Len(segments) >= 2
    /\ Len(cands) > Len(segments)

\* the candidates of Backtrack as the claim C2 states them: spans accepted so
\* far in acc, OK markers still to process in oks
RECURSIVE C2Fold(_, _)
C2Fold(oks, acc) ==
    IF oks = <<>> THEN acc
    ELSE LET ok == Head(oks)
             ngEnds == {markers[i].end : i \in
                          {j \in DOMAIN markers : /\ markers[j].type = "NG"
                                                  /\ markers[j].end < ok.start}}
             S == IF ngEnds # {} THEN SetMax(ngEnds) + post_buffer
                  ELSE IF acc # <<>> THEN acc[Len(acc)][2] ELSE 0
             st == Max(0, S - pre_buffer)
             en == Min(total_duration, ok.start - pre_buffer + post_buffer)
         IN C2Fold(Tail(oks), IF en - st > 100 THEN Append(acc, <<st, en>>) ELSE acc)

\* C2: Backtrack builds, for each OK marker in chronological order, the
\* candidate [max(0, S - preBuffer), min(totalDuration, OK.start - preBuffer +
\* postBuffer)], S being the latest end among the NG markers ending before
\* OK.start plus postBuffer, else the end of the previously accepted segment,
\* else 0, and accepts it only if it is longer than 0.1 s; NG [2.0,2.5],
\* OK [10.0,10.5], totalDuration 20, buffers 0.5/0.3 gives exactly [2.3, 9.8].
C2_BacktrackCandidates ==
    /\ (phase = "backtrack" /\ HasType("OK")) =>
          Spans(cands) = C2Fold(SelectSeq(markers, LAMBDA m : m.type = "OK"), <<>>)
    /\ ( /\ phase = "backtrack"
         /\ Spans(markers) = << <<2000, 2500>>, <<10000, 10500>> >>
         /\ markers[1].type = "NG" /\ markers[2].type = "OK"
         /\ total_duration = 20000 /\ pre_buffer = 500 /\ post_buffer = 300 ) =>
          Spans(segments) = << <<2300, 9800>> >>

\* the candidates of Interval as the claim C3 states them (clamp = FALSE) and
\* with the start kept >= 0 and an END-paired end kept <= totalDuration
\* (clamp = TRUE); i is the next index of markers to look at
RECURSIVE C3Fold(_, _, _)
C3Fold(i, acc, clamp) ==
    IF i > Len(markers) THEN acc
    ELSE IF markers[i].type # "START" THEN C3Fold(i + 1, acc, clamp)
    ELSE LET s == markers[i]
             ends == {markers[j].start : j \in
                        {k \in DOMAIN markers : /\ markers[k].type = "END"
                                                /\ markers[k].start > s.end}}
             nexts == {markers[j].start : j \in
                         {k \in DOMAIN markers : /\ markers[k].type = "START"
                                                 /\ markers[k].start > s.end}}
             st0 == s.end + post_buffer - pre_buffer
             st == IF clamp THEN Max(0, st0) ELSE st0
             en == IF ends # {}
                   THEN IF clamp THEN Min(total_duration, SetMin(ends))
                        ELSE SetMin(ends)
                   ELSE IF nexts # {} THEN SetMin(nexts)
                   ELSE total_duration
         IN C3Fold(i + 1, IF en - st > 100 THEN Append(acc, <<st, en>>) ELSE acc,
                   clamp)

\* C3 as stated: Interval pairs each START with the first END starting after
\* it and builds the candidate [START.end + postBuffer - preBuffer, END.start];
\* without such an END the end is the next START's start, or totalDuration;
\* the candidate is accepted only if it is longer than 0.1 s.
C3_IntervalCandidates_AsStated ==
    (phase = "interval" /\ HasType("START")) =>
        Spans(cands) = C3Fold(1, <<>>, FALSE)

\* C3 amended: as above, with the candidate start max(0, START.end +
\* postBuffer - preBuffer) and an END-paired end min(totalDuration, END.start).
C3_IntervalCandidates ==
    (phase = "interval" /\ HasType("START")) =>
        Spans(cands) = C3Fold(1, <<>>, TRUE)

\* an Interval run with one END-paired candidate and one START-paired one
C3_Witness ==
    /\ phase = "interval"
    /\ Len(cands) >= 2
    /\ \E i \in DOMAIN cands : \E j \in DOMAIN markers :
          markers[j].type = "END" /\ cands[i].end = markers[j].start
    /\ \E i \in DOMAIN cands : \E j \in DOMAIN markers :
          markers[j].type = "START" /\ cands[i].end = markers[j].start

\* C4: slice_backtrack without any OK marker returns exactly one enabled keep
\* segment [0, totalDuration]; slice_interval without any START marker
\* returns the empty list; whatever other markers are present.
C4_Fallback ==
    /\ (phase = "backtrack" /\ ~HasType("OK") /\ total_duration > 0) =>
          /\ Len(segments) = 1
          /\ segments[1].start = 0
          /\ segments[1].end = total_duration
          /\ segments[1].type = "keep"
          /\ segments[1].enabled
    /\ (phase = "interval" /\ ~HasType("START")) => segments = <<>>

\* Backtrack ran on a list with NG, START and END markers but no OK marker,
\* for a recording of 60 s
C4_Witness ==
    /\ phase = "backtrack"
    /\ ~HasType("OK")
    /\ HasType("NG") /\ HasType("START") /\ HasType("END")
    /\ total_duration = 60000
    /\ Spans(segments) = << <<0, 60000>> >>

\* C5: every segment returned by either algorithm lies inside the recording:
\* 0 <= s.start < s.end <= totalDuration.
C5_InsideRecording ==
    Sliced =>
        \A i \in DOMAIN segments :
            /\ 0 <= segments[i].start
            /\ segments[i].start < segments[i].end
            /\ segments[i].end <= total_duration

\* C6: the merge pass is idempotent: merging a merged list again gives the
\* same number of segments with the same (start, end), in the same order.
C6_MergeIdempotent ==
    phase = "remerged" => Spans(remerged) = Spans(segments)

\* the first pass joined three segments into fewer, and the second pass ran
C6_Witness ==
    /\ phase = "remerged"
    /\ Len(cands) = 3
    /\ Len(segments) = 2
    /\ Len(remerged) = 2

(***************************************************************************)
(* Claims about marker detection                                           *)
(***************************************************************************)
\* C7: every marker returned by detect_markers has start <= end and the
\* returned list is sorted ascending by start.
C7_MarkersOrdered ==
    phase = "detected" =>
        /\ \A i \in DOMAIN markers : markers[i].start <= markers[i].end
        /\ \A i \in 1..(Len(markers) - 1) : markers[i].start <= markers[i + 1].start

\* two sentences gave a marker each and a word window of the first sentence
\* gave one more, which the word pass appended after both
C7_Witness ==
    /\ phase = "detected"
    /\ Len(markers) >= 3
    /\ \E i \in 1..(Len(markers) - 1) :
          /\ markers[i].start > 0
          /\ markers[i].end < 1000
          /\ markers[i + 1].start = 2000
          /\ markers[i + 1].end = 3000

(***************************************************************************)
(* Claims about the exporters                                              *)
(***************************************************************************)
\* positions of the enabled keep segments of a list
KeepIdx(L) == {i \in DOMAIN L : L[i].enabled /\ L[i].type = "keep"}

\* the enabled keep segments of L in ascending order of start, segments with
\* equal start in their order in L
KeepInOrder(L) ==
    LET n == Cardinality(KeepIdx(L))
        p == CHOOSE f \in [1..n -> KeepIdx(L)] :
                 \A a, b \in 1..n :
                     a < b => \/ L[f[a]].start < L[f[b]].start
                              \/ L[f[a]].start = L[f[b]].start /\ f[a] < f[b]
    IN [k \in 1..n |-> L[p[k]]]

\* sum of the durations of the segments of E before position i
RECURSIVE OffsetOf(_, _)
OffsetOf(E, i) ==
    IF i <= 1 THEN 0 ELSE OffsetOf(E, i - 1) + (E[i - 1].end - E[i - 1].start)

\* C8: EDL event i (numbered from 001) of the enabled keep segments in start
\* order has source in/out = timecodes of the segment's start/end and record
\* in/out = timecodes of the summed earlier durations and of that sum plus its
\* own duration; the first record-in is 00:00:00:00 and every record-in is the
\* previous record-out; one keep segment [10.0, 15.0] at 30 fps has source in
\* 00:00:10:00 and record in 00:00:00:00.
C8_EdlEvents ==
    export.kind = "edl" =>
        LET E == KeepInOrder(export.args)
            ev == export.doc.events
        IN /\ Len(ev) = Len(E)
           /\ \A i \in DOMAIN ev :
                 /\ ev[i].num = Pad3(i)
                 /\ ev[i].src_in = _seconds_to_tc(E[i].start, FPS)
                 /\ ev[i].src_out = _seconds_to_tc(E[i].end, FPS)
                 /\ ev[i].rec_in = _seconds_to_tc(OffsetOf(E, i), FPS)
                 /\ ev[i].rec_out =
                        _seconds_to_tc(OffsetOf(E, i) + (E[i].end - E[i].start), FPS)
                 /\ i > 1 => ev[i].rec_in = ev[i - 1].rec_out
           /\ Len(ev) >= 1 => ev[1].rec_in = "00:00:00:00" /\ ev[1].num = "001"
           /\ Spans(E) = << <<10000, 15000>> >> =>
                 ev[1].src_in = "00:00:10:00" /\ ev[1].rec_in = "00:00:00:00"

\* an EDL of two events made from a list that is not in start order, the
\* first event for the segment [10.0, 15.0]
C8_Witness ==
    /\ export.kind = "edl"
    /\ Len(export.doc.events) = 2
    /\ ~SortedByStart(export.args)
    /\ export.doc.events[1].src_in = "00:00:10:00"
    /\ export.doc.events[2].rec_in = "00:00:05:00"

\* the (segment, sentence) pairs of C9: sentence j overlaps the i-th enabled
\* keep segment and keeps some text after the filter keywords are removed
CuePairs(E) ==
    {q \in (DOMAIN E) \X (DOMAIN transcript) :
        /\ transcript[q[2]].end > E[q[1]].start
        /\ transcript[q[2]].start < E[q[1]].end
        /\ CueText(transcript[q[2]].text, filter_keywords) # <<>>}

\* position of the pair q among the pairs, segment by segment
CueRank(P, q) ==
    1 + Cardinality({r \in P : r[1] < q[1] \/ (r[1] = q[1] /\ r[2] < q[2])})

\* C9: the SRT has exactly one cue per enabled keep segment (in start order)
\* and overlapping sentence whose text is not empty after the filter, at
\* [offset + (max(sentence.start, segment.start) - segment.start),
\*  offset + (min(sentence.end, segment.end) - segment.start)], offset being
\* the summed durations of the earlier segments; a sentence emptied by the
\* filter gives no cue; the cues are numbered 1, 2, 3, ... without gaps; every
\* cue lies within [offset, offset + segment duration].
C9_SrtCues ==
    export.kind = "srt" =>
        LET E == KeepInOrder(export.args)
            P == CuePairs(E)
            cues == export.doc
        IN /\ Len(cues) = Cardinality(P)
           /\ \A k \in DOMAIN cues : cues[k].num = k
           /\ \A q \in P :
                 LET c == cues[CueRank(P, q)]
                     seg == E[q[1]]
                     ts == transcript[q[2]]
                     offset == OffsetOf(E, q[1])
                 IN /\ c.rel_start = offset + (Max(ts.start, seg.start) - seg.start)
                    /\ c.rel_end = offset + (Min(ts.end, seg.end) - seg.start)
                    /\ c.start_tc = _seconds_to_srt_tc(OfMillis(c.rel_start))
                    /\ c.end_tc = _seconds_to_srt_tc(OfMillis(c.rel_end))
                    /\ c.text = CueText(ts.text, filter_keywords)
                    /\ offset <= c.rel_start
                    /\ c.rel_start <= c.rel_end
                    /\ c.rel_end <= offset + (seg.end - seg.start)

\* an SRT over two enabled keep segments in which a sentence was emptied by
\* the filter, one cue was clipped at the start of its segment and one cue
\* belongs to the second segment
C9_Witness ==
    /\ export.kind = "srt"
    /\ Len(KeepInOrder(export.args)) = 2
    /\ Len(export.doc) >= 2
    /\ \E i \in DOMAIN KeepInOrder(export.args) : \E j \in DOMAIN transcript :
          /\ transcript[j].end > KeepInOrder(export.args)[i].start
          /\ transcript[j].start < KeepInOrder(export.args)[i].end
          /\ CueText(transcript[j].text, filter_keywords) = <<>>
    /\ \E k \in DOMAIN export.doc : \E j \in DOMAIN transcript :
          /\ export.doc[k].rel_start = 0
          /\ export.doc[k].rel_end = transcript[j].end - 10000
          /\ transcript[j].start < 10000
    /\ \E k \in DOMAIN export.doc : export.doc[k].rel_start > 0

\* the document of an exporter for the list L
DocOf(kind, L) ==
    CASE kind = "edl" -> export_edl(L, SourceFilename, FPS, Title)
      [] kind = "xml" -> export_xml(L, SourceFilename, FPS, Title)
      [] kind = "srt" -> export_srt(L, transcript, filter_keywords)

\* the entries of a document: event lines, clip items or cues
EntriesOf(kind, doc) ==
    CASE kind = "edl" -> doc.events
      [] kind = "xml" -> doc.clipitems
      [] kind = "srt" -> doc

\* C10: the document of export_edl, export_xml and export_srt for a list L,
\* in any order and after any toggles, is the document for the enabled keep
\* segments of L in start order; without an enabled keep segment it has no
\* event line, clip item or cue; and an exporter leaves the list as it was
\* (only a toggle changes the stored list, and it changes no document).
C10_OnlyEnabledKeep ==
    /\ [](export.kind # "none" =>
            /\ export.doc = DocOf(export.kind, KeepInOrder(export.args))
            /\ KeepIdx(export.args) = {} =>
                  EntriesOf(export.kind, export.doc) = <<>>)
    /\ [][/\ export' # export => segments' = segments /\ segments = export'.args
          /\ segments' # segments => export' = export]_vars

\* an exporter ran on a list that is not in start order, whose segments are
\* all disabled or discarded, and returned a document without entries
C10_Witness ==
    /\ export.kind \in {"edl", "xml", "srt"}
    /\ Len(export.args) >= 2
    /\ ~SortedByStart(export.args)
    /\ \E i \in DOMAIN export.args :
          export.args[i].type = "keep" /\ ~export.args[i].enabled
    /\ KeepIdx(export.args) = {}
    /\ EntriesOf(export.kind, export.doc) = <<>>
    /\ segments = export.args

(***************************************************************************)
(* Claims about the endpoints                                              *)
(***************************************************************************)
ExportEndpoints == {"edl", "xml", "srt", "video"}

\* the stored set has no segment that is both enabled and of type keep
NoEnabledKeep(opt) == opt = None \/ KeepIdx(opt[1]) = {}

\* C11: an export request (EDL, XML, SRT, video) on a stored segment set with
\* no enabled keep segment is answered with an error and writes no file to
\* the export directory.
C11_ExportRejected ==
    [][(response'.endpoint \in ExportEndpoints /\ NoEnabledKeep(segments_json)
        /\ (response' # response \/ exports_dir' # exports_dir \/ export' # export))
       => (response'.status >= 400 /\ exports_dir' = exports_dir)]_vars

\* C12: for totalDuration <= 0 or a negative preBuffer or postBuffer, neither
\* slicer returns segments (the input is rejected instead).
C12_InvalidRejected ==
    (Sliced /\ (total_duration <= 0 \/ pre_buffer < 0 \/ post_buffer < 0)) =>
        segments = <<>>

(***************************************************************************)
(* Claims about the analysis run                                           *)
(***************************************************************************)
\* the task r has caught an exception
Raised(r) == runs[r].raised # ""

C14_Wholesale ==
    [][\A r \in RunIds :
          (runs[r].pc = "saved" /\ runs'[r].pc = "done") =>
              (project'.status = "analyzed" /\ segments_json' = Some(runs[r].segments))]_vars

\* C15: after a successful patch or toggle of a segment, that segment has
\* manual_adjusted = TRUE in the stored set and every other segment of the
\* set is as the handler loaded it.
C15_ManualAdjusted ==
    [][(request # NoRequest /\ request' = NoRequest) =>
          /\ segments_json' # None
          /\ Len(segments_json'[1]) = Len(request.segments)
          /\ segments_json'[1][request.target].manual_adjusted
          /\ \A i \in DOMAIN request.segments :
                i # request.target => segments_json'[1][i] = request.segments[i]]_vars

\* the task r has set ANALYZING and has not ended
Active(r) == runs[r].pc \notin {"idle", "queued", "loaded", "done"}

Unfinished(r) == runs[r].pc \notin {"idle", "done"}

\* C17: at most one analysis run per project is accepted and unfinished at
\* any time (an analyze request arriving in between is rejected with 409).
C17_SingleRun ==
    \A r, q \in RunIds : (Unfinished(r) /\ Unfinished(q)) => r = q

(***************************************************************************)
(* Further claims about the slicers and the detection                      *)
(***************************************************************************)
\* C18: with preBuffer >= postBuffer >= 0, no segment returned by
\* slice_backtrack has the start time of an OK marker in its interior.
C18_OkCueNotKept ==
    (phase = "backtrack" /\ pre_buffer >= post_buffer /\ post_buffer >= 0) =>
        \A i \in DOMAIN segments, j \in DOMAIN markers :
            markers[j].type = "OK" =>
                ~(segments[i].start < markers[j].start
                    /\ markers[j].start < segments[i].end)

\* positions in keyword_map of the keywords the text of a sentence matches
SentenceHits(seg, keyword_map) ==
    {i \in DOMAIN keyword_map :
        MeetsThreshold(_fuzzy_match(Strip(seg.text), keyword_map[i][1]))}

\* C19: when the sentence pass has produced a marker for a sentence, the
\* result has no further marker for a window of words of that sentence that
\* matches the same keyword (one spoken occurrence is one marker).
C19_NoDoubleCount ==
    phase = "detected" =>
        \A s \in DOMAIN transcript :
            LET seg == transcript[s]
                keyword_map == KeywordMap(keywords)
                hits == SentenceHits(seg, keyword_map)
            IN hits # {} =>
                 LET keyword == keyword_map[CHOOSE h \in hits : \A o \in hits : h <= o][1]
                 IN \A i \in DOMAIN seg.words :
                        LET r == _check_word_sequence(seg.words, i, keyword)
                            first == seg.words[i].start
                            last == seg.words[r.end_idx].end
                        IN (r.is_match /\ <<first, last>> # <<seg.start, seg.end>>) =>
                              ~\E n \in DOMAIN markers :
                                  markers[n].start = first /\ markers[n].end = last

(***************************************************************************)
(* Further claims about the exporters                                      *)
(***************************************************************************)
\* the timecode HH:MM:SS:FF of a frame count at FPS frames per second
TimecodeOf(n) ==
    Pad2(n \div (3600 * FPS)) \o ":" \o Pad2((n \div (60 * FPS)) % 60) \o ":"
        \o Pad2((n \div FPS) % 60) \o ":" \o Pad2(n % FPS)

Timecodes == [n \in 0..MaxFrame |-> TimecodeOf(n)]

\* the frame count a timecode denotes
FrameOf(tc) == CHOOSE n \in 0..MaxFrame : Timecodes[n] = tc

\* C20: each EDL event's record length in frames equals its source length in
\* frames, and each XML clip item's out - in equals its duration and its
\* end - start.
C20_FrameLengths ==
    /\ export.kind = "edl" =>
          \A i \in DOMAIN export.doc.events :
              LET ev == export.doc.events[i]
              IN FrameOf(ev.rec_out) - FrameOf(ev.rec_in)
                    = FrameOf(ev.src_out) - FrameOf(ev.src_in)
    /\ export.kind = "xml" =>
          \A i \in DOMAIN export.doc.clipitems :
              LET c == export.doc.clipitems[i]
              IN /\ c.out - c.in = c.duration
                 /\ c.out - c.in = c.end - c.start

(***************************************************************************)
(* Further claims about the merge pass                                     *)
(***************************************************************************)
\* the input segment at position n lies inside the output segment o
Inside(n, o) == o.start <= cands[n].start /\ cands[n].end <= o.end

\* the input at position m comes before the input at position n in
\* sorted(segments, key=start)
Before(m, n) ==
    \/ cands[m].start < cands[n].start
    \/ cands[m].start = cands[n].start /\ m < n

\* C21: the merge pass keeps every covered time covered; every output
\* segment starts at the start of an input segment and ends at the maximum
\* end of the inputs merged into it; an input is merged into the previous
\* output segment exactly when its start <= that segment's end + 0.05 s; a
\* time covered by the output and by no input lies in a gap of at most
\* 0.05 s between two inputs.
C21_MergeCoverage ==
    phase = "merged" =>
        /\ \A n \in DOMAIN cands : \E k \in DOMAIN segments : Inside(n, segments[k])
        /\ \A k \in DOMAIN segments :
              LET o == segments[k]
                  group == {n \in DOMAIN cands : Inside(n, o)}
              IN /\ \E n \in group : cands[n].start = o.start
                 /\ o.end = SetMax({cands[n].end : n \in group})
                 /\ \A n \in group :
                       LET earlier == {m \in group : Before(m, n)}
                       IN earlier # {} =>
                             cands[n].start
                                <= SetMax({cands[m].end : m \in earlier}) + MERGE_TOL
                 /\ \A t \in o.start..o.end :
                       (\A n \in group : t < cands[n].start \/ cands[n].end < t) =>
                          \E m, n \in group :
                              /\ cands[m].end < t /\ t < cands[n].start
                              /\ cands[n].start - cands[m].end <= MERGE_TOL
        /\ \A k \in 1..(Len(segments) - 1) :
              segments[k + 1].start > segments[k].end + MERGE_TOL

\* three inputs merged into one segment: [100, 200] lies inside [0, 1000]
\* and [1050, 1500] follows it after a gap of exactly 0.05 s
C21_Witness ==
    /\ phase = "merged"
    /\ Len(cands) = 3
    /\ Spans(segments) = << <<0, 1500>> >>
    /\ \E n \in DOMAIN cands : cands[n].start = 100
    /\ \E n \in DOMAIN cands : cands[n].start = 1050

(***************************************************************************)
(* Further claims about the SRT timecode                                   *)
(***************************************************************************)
\* a time rounded to the nearest millisecond (no input is an exact tie)
NearestMs(seconds) == 1000 * seconds.whole + (seconds.micros + 500) \div 1000

\* the well-formed HH:MM:SS,mmm that denotes n milliseconds: mmm in 000..999,
\* SS and MM in 00..59
SrtOfMillis(n) ==
    LET ms == n % 1000
        ss == (n \div 1000) % 60
        mm == (n \div 60000) % 60
        hh == n \div 3600000
    IN Pad2(hh) \o ":" \o Pad2(mm) \o ":" \o Pad2(ss) \o "," \o Pad3(ms)

\* C22: for every non-negative time, sub-millisecond fractions included, the
\* rendered SRT timecode is the well-formed HH:MM:SS,mmm (mmm in 000..999, SS
\* and MM in 00..59) of the time rounded to the nearest millisecond, a
\* fraction that rounds up to a whole second carrying into the seconds.
C22_SrtTimecodeRounds ==
    phase = "timecode" => export.doc = SrtOfMillis(NearestMs(export.args))

(***************************************************************************)
(* Further claims about the stored project                                 *)
(***************************************************************************)
\* C23: after any sequence of analysis runs the stored status and
\* error_message agree: a project stored with status ANALYZED (also after a
\* successful re-analysis that follows a failed run) has an empty
\* error_message, and a non-empty error_message is stored only with status
\* ERROR.
C23_StatusMatchesMessage ==
    /\ project.status = "analyzed" => project.error_message = ""
    /\ project.error_message # "" => project.status = "error"

====
